---- MODULE Spec2Model ----
(***************************************************************************)
(* Model of gpytorch/utils/lanczos_quadrature.py (class StochasticLQ).     *)
(*                                                                         *)
(* Real numbers are integers in units of 1e-5, so the thresholds 1e-4 and  *)
(* 1.1e-4 of the source are 10 and 11.  The residual stabiliser 1e-10 is   *)
(* below one unit.  The operator (matmul_closure) is opaque: the Lanczos   *)
(* coefficients it produces for a probe at a step are inputs, drawn from   *)
(* AlphaVals and BetaVals, and remembered per probe (memoA, memoB) because *)
(* every reduction of lanczos_batch and _lanczos_step_batch is taken over  *)
(* the vector dimension only, so a probe's coefficients at a step are a    *)
(* function of the operator and of that probe.                             *)
(* The smallest eigenvalue of a symmetric tridiagonal block is compared    *)
(* with a threshold exactly, by the pivots of the shifted block.           *)
(***************************************************************************)
EXTENDS Integers, Sequences, FiniteSets, TLC

\* ---- bounds of the model ----
MaxIter == 5
MaxDim == 5
MaxProbes == 2
MaxFuncs == 2
MaxCoefs == 6
MaxT == 6

\* ---- program constants, in units of 1e-5 ----
BreakTol == 10
EigTol == 10
NodeShift == 11

\* ---- input values, in units of 1e-5 ----
AlphaVals == {0 - 20, 5}
BetaVals == {5, 20}
ScalarVals == {0 - 20, 20}

VARIABLES pc, caller, max_iter, num_random_probes, kind, n, c, nfuncs,
          np, cols, num_iters, alpha, beta, k, k_bound, steps, Qs, Ts, err,
          j, used, results, retKind, retVal, memoA, memoB, saved, soloJ,
          bsT, bsLeft, bsProper

vars == <<pc, caller, max_iter, num_random_probes, kind, n, c, nfuncs,
          np, cols, num_iters, alpha, beta, k, k_bound, steps, Qs, Ts, err,
          j, used, results, retKind, retVal, memoA, memoB, saved, soloJ,
          bsT, bsLeft, bsProper>>

\* ---- helpers ----
Abs(x) == IF x < 0 THEN 0 - x ELSE x

Min(a, b) == IF a < b THEN a ELSE b

Max(a, b) == IF a > b THEN a ELSE b

RECURSIVE GCD(_, _)
GCD(a, b) == IF b = 0 THEN a ELSE GCD(b, a % b)

Zeros(len) == [i \in 1..len |-> 0]

\* torch.diag(v, off) as an m-by-m matrix (rows of columns), m = Len(v) + |off|
Diag(v, off, m) ==
  [r \in 1..m |-> [cc \in 1..m |->
     IF cc - r = off
     THEN (IF off >= 0 THEN v[r] ELSE v[cc])
     ELSE 0]]

MatAdd(A, B, m) == [r \in 1..m |-> [cc \in 1..m |-> A[r][cc] + B[r][cc]]]

\* The pivots of the leading block T[:m,:m] + shift*I from pivot i = num/den (den > 0) on are all
\* >= 0 (> 0 when strict): the block is positive semidefinite (definite).
RECURSIVE PivotsOK(_, _, _, _, _, _, _)
PivotsOK(T, m, shift, strict, i, num, den) ==
  IF num < 0 \/ (strict /\ num = 0) THEN FALSE
  ELSE IF i = m THEN TRUE
  ELSE IF num = 0
       THEN T[i][i + 1] = 0
            /\ PivotsOK(T, m, shift, strict, i + 1, T[i + 1][i + 1] + shift, 1)
       ELSE LET nn == (T[i + 1][i + 1] + shift) * num - T[i][i + 1] * T[i][i + 1] * den
                g == GCD(Abs(nn), num)
            IN PivotsOK(T, m, shift, strict, i + 1, nn \div g, num \div g)

\* torch.min(T[:m,:m].symeig()[0]) < -tol
symeig_min_below(T, m, tol) == ~PivotsOK(T, m, tol, FALSE, 1, T[1][1] + tol, 1)

\* ---- binary_search_symeig ----
RECURSIVE bs_loop(_, _, _)
bs_loop(T, left, right) ==
  IF right - left > 1
  THEN LET mid == (left + right) \div 2
       IN IF symeig_min_below(T, mid, EigTol)
          THEN bs_loop(T, left, mid - 1)
          ELSE bs_loop(T, mid, right)
  ELSE left

binary_search_symeig(T) == bs_loop(T, 0, Len(T))

\* mutant of last_proper: the clamp to 1 is forgotten
last_proper_unclamped(T) == binary_search_symeig(T)

\* last_proper = max(self.binary_search_symeig(T), 1)
last_proper(T) == Max(binary_search_symeig(T), 1)

\* ---- lanczos_batch ----
\* The coefficients the operator yields for the probes cs at array index idx:
\* the remembered ones where the probe has been run that far, else any of Vals.
Draw(cs, idx, Vals, memo) ==
  {f \in [cs -> Vals] : \A i \in cs : Len(memo[i]) >= idx => f[i] = memo[i][idx]}

MemoPut(memo, cs, idx, f) ==
  [i \in DOMAIN memo |->
     IF i \in cs /\ Len(memo[i]) < idx THEN Append(memo[i], f[i]) ELSE memo[i]]

\* all(torch.abs(x[:, kk]) < 1e-4), column kk of the source is index kk + 1
all_small(x, cs, kk) == \A i \in cs : Abs(x[i][kk + 1]) < BreakTol

\* mutant of early_exit: only the beta test is made
early_exit_beta_only(al, be, cs, kk) == all_small(be, cs, kk)

\* mutant of early_exit: both whole-batch tests are required
early_exit_both(al, be, cs, kk) == all_small(be, cs, kk) /\ all_small(al, cs, kk)

\* the test of the break statement
early_exit(al, be, cs, kk) == all_small(be, cs, kk) \/ all_small(al, cs, kk)

\* torch.diag(alpha) + torch.diag(beta, 1) + torch.diag(beta, -1)
tridiag(al, be) ==
  LET m == Len(al)
  IN MatAdd(MatAdd(Diag(al, 0, m), Diag(be, 1, m), m), Diag(be, 0 - 1, m), m)

\* alpha[:, :kk] and beta[:, 1:kk] of one probe
alpha_slice(al, kk) == SubSeq(al, 1, kk)

\* mutant of beta_slice: beta[:, 0:kk-1], which keeps beta_0
beta_slice_from_zero(be, kk) == SubSeq(be, 1, kk - 1)

beta_slice(be, kk) == SubSeq(be, 2, kk)

\* lanczos_batch up to the loop: sizes, allocation, step 0
lanczos_start(dim, p, cs, cc) ==
  LET N == Min(max_iter, dim)
  IN \E a0 \in Draw(cs, 1, IF dim = 1 THEN {cc} ELSE AlphaVals, memoA),
        b0 \in Draw(cs, 1, IF dim = 1 THEN {0} ELSE BetaVals, memoB) :
       /\ num_iters' = N
       /\ alpha' = [i \in 1..p |-> IF i \in cs THEN [Zeros(N) EXCEPT ![1] = a0[i]] ELSE <<>>]
       /\ beta' = [i \in 1..p |-> IF i \in cs THEN [Zeros(N) EXCEPT ![1] = b0[i]] ELSE <<>>]
       /\ memoA' = MemoPut(memoA, cs, 1, a0)
       /\ memoB' = MemoPut(memoB, cs, 1, b0)
       /\ k' = 0
       /\ k_bound' = FALSE
       /\ steps' = 1
       /\ Qs' = 0
       /\ Ts' = [i \in 1..p |-> <<>>]
       /\ err' = "none"
       /\ pc' = IF N > 1 THEN "loop" ELSE "assemble"

\* one iteration of "for k in range(1, num_iters)", the break test included
lanczos_loop_step ==
  /\ pc = "loop"
  /\ LET kk == IF k_bound THEN k + 1 ELSE 1
     IN \E av \in Draw(cols, kk + 1, AlphaVals, memoA),
           bv \in Draw(cols, kk + 1, BetaVals, memoB) :
          LET al == [i \in DOMAIN alpha |-> IF i \in cols THEN [alpha[i] EXCEPT ![kk + 1] = av[i]] ELSE alpha[i]]
              be == [i \in DOMAIN beta |-> IF i \in cols THEN [beta[i] EXCEPT ![kk + 1] = bv[i]] ELSE beta[i]]
          IN /\ alpha' = al
             /\ beta' = be
             /\ memoA' = MemoPut(memoA, cols, kk + 1, av)
             /\ memoB' = MemoPut(memoB, cols, kk + 1, bv)
             /\ k' = kk
             /\ k_bound' = TRUE
             /\ steps' = steps + 1
             /\ pc' = IF early_exit(al, be, cols, kk) \/ kk = num_iters - 1
                      THEN "assemble" ELSE "loop"
  /\ UNCHANGED <<caller, max_iter, num_random_probes, kind, n, c, nfuncs, np, cols,
                 num_iters, Qs, Ts, err, j, used, results, retKind, retVal,
                 saved, soloJ, bsT, bsLeft, bsProper>>

\* what "if k == 1: ... else: ..." leaves: the error raised, the columns of Qs, Ts
assemble(kb, kk, N, al, be, cs) ==
  IF ~kb
  THEN [err |-> "UnboundLocalError", Qs |-> 0, Ts |-> [i \in DOMAIN al |-> <<>>]]
  ELSE IF kk = 1
  THEN [err |-> "none", Qs |-> kk,
        Ts |-> [i \in DOMAIN al |-> IF i \in cs THEN <<alpha_slice(al[i], kk)>> ELSE <<>>]]
  ELSE IF kk # N - 1
  THEN [err |-> "RuntimeError", Qs |-> 0, Ts |-> [i \in DOMAIN al |-> <<>>]]
  ELSE [err |-> "none", Qs |-> kk,
        Ts |-> [i \in DOMAIN al |->
                  IF i \in cs
                  THEN tridiag(alpha_slice(al[i], kk), beta_slice(be[i], kk))
                  ELSE <<>>]]

\* the code after the loop, and the return to the caller
lanczos_assemble ==
  /\ pc = "assemble"
  /\ LET out == assemble(k_bound, k, num_iters, alpha, beta, cols)
     IN /\ err' = out.err
        /\ Qs' = out.Qs
        /\ Ts' = out.Ts
        /\ IF caller = "evaluate"
           THEN IF out.err # "none"
                THEN pc' = "done" /\ retKind' = "raise" /\ j' = j
                ELSE pc' = "quad" /\ retKind' = retKind /\ j' = 1
           ELSE pc' = "returned" /\ retKind' = retKind /\ j' = j
  /\ UNCHANGED <<caller, max_iter, num_random_probes, kind, n, c, nfuncs, np, cols,
                 num_iters, alpha, beta, k, k_bound, steps, used, results, retVal,
                 memoA, memoB, saved, soloJ, bsT, bsLeft, bsProper>>

\* ---- evaluate ----
\* mutant of quadrature_block: the indefiniteness test uses -1e-3
quadrature_block_loose(T) ==
  IF symeig_min_below(T, Len(T), 100) THEN last_proper(T) ELSE Len(T)

\* the size of the block of T that is eigendecomposed for the quadrature
quadrature_block(T) ==
  IF symeig_min_below(T, Len(T), EigTol) THEN last_proper(T) ELSE Len(T)

\* evaluate up to and including the first part of lanczos_batch
evaluate ==
  /\ pc = "idle"
  /\ \E kd \in {"tensor", "closure"}, nn \in 1..MaxDim, nf \in 1..MaxFuncs,
        cc \in ScalarVals \cup {0} :
       /\ (nn = 1) = (cc # 0)
       /\ num_random_probes * Min(max_iter, nn) <= MaxCoefs
       /\ caller' = "evaluate"
       /\ n' = nn
       /\ c' = cc
       /\ nfuncs' = nf
       /\ IF kd = "tensor" /\ nn * nn = 1
          THEN /\ kind' = "tensor"
               /\ retKind' = "scalar"
               /\ retVal' = Abs(cc)
               /\ pc' = "done"
               /\ UNCHANGED <<np, cols, num_iters, alpha, beta, k, k_bound, steps, Qs,
                              Ts, err, results, memoA, memoB>>
          ELSE /\ kind' = "closure"
               /\ np' = num_random_probes
               /\ cols' = 1..num_random_probes
               /\ results' = [i \in 1..nf |-> 0]
               /\ lanczos_start(nn, num_random_probes, 1..num_random_probes, cc)
               /\ UNCHANGED <<retKind, retVal>>
  /\ UNCHANGED <<max_iter, num_random_probes, j, used, saved, soloJ, bsT, bsLeft, bsProper>>

\* one iteration of "for j in range(self.num_random_probes)"; results[i] counts
\* the probe terms accumulated for function i
evaluate_probe ==
  /\ pc = "quad"
  /\ used' = Append(used, quadrature_block(Ts[j]))
  /\ results' = [i \in DOMAIN results |-> results[i] + 1]
  /\ j' = j + 1
  /\ IF j = num_random_probes
     THEN pc' = "done" /\ retKind' = "list"
     ELSE pc' = "quad" /\ retKind' = retKind
  /\ UNCHANGED <<caller, max_iter, num_random_probes, kind, n, c, nfuncs, np, cols,
                 num_iters, alpha, beta, k, k_bound, steps, Qs, Ts, err, retVal,
                 memoA, memoB, saved, soloJ, bsT, bsLeft, bsProper>>

\* ---- direct calls of lanczos_batch: a batch, then one of its probes alone ----
lanczos_batch_call ==
  /\ pc = "idle"
  /\ \E dim \in 1..MaxDim, p \in 1..MaxProbes, cc \in ScalarVals \cup {0} :
       /\ (dim = 1) = (cc # 0)
       /\ p * Min(max_iter, dim) <= MaxCoefs
       /\ caller' = "batch"
       /\ n' = dim
       /\ c' = cc
       /\ np' = p
       /\ cols' = 1..p
       /\ lanczos_start(dim, p, 1..p, cc)
  /\ UNCHANGED <<max_iter, num_random_probes, kind, nfuncs, j, used, results, retKind,
                 retVal, saved, soloJ, bsT, bsLeft, bsProper>>

lanczos_solo_call ==
  /\ pc = "returned"
  /\ caller = "batch"
  /\ \E jj \in cols :
       /\ saved' = [err |-> err, Qs |-> Qs, T |-> Ts[jj]]
       /\ soloJ' = jj
       /\ caller' = "solo"
       /\ cols' = {jj}
       /\ lanczos_start(n, np, {jj}, c)
  /\ UNCHANGED <<max_iter, num_random_probes, kind, n, c, nfuncs, np, j, used, results,
                 retKind, retVal, bsT, bsLeft, bsProper>>

\* ---- the fallback of evaluate applied to a tridiagonal T ----
fallback_select ==
  /\ pc = "bs_idle"
  /\ bsLeft' = binary_search_symeig(bsT)
  /\ bsProper' = last_proper(bsT)
  /\ pc' = "bs_done"
  /\ UNCHANGED <<caller, max_iter, num_random_probes, kind, n, c, nfuncs, np, cols,
                 num_iters, alpha, beta, k, k_bound, steps, Qs, Ts, err, j, used,
                 results, retKind, retVal, memoA, memoB, saved, soloJ, bsT>>

\* ---- specifications ----
Blank ==
  /\ caller = "none" /\ kind = "none" /\ n = 0 /\ c = 0 /\ nfuncs = 0
  /\ np = 0 /\ cols = {} /\ num_iters = 0 /\ alpha = <<>> /\ beta = <<>>
  /\ k = 0 /\ k_bound = FALSE /\ steps = 0 /\ Qs = 0 /\ Ts = <<>> /\ err = "none"
  /\ j = 0 /\ used = <<>> /\ results = <<>> /\ retKind = "none" /\ retVal = 0
  /\ memoA = [i \in 1..MaxProbes |-> <<>>] /\ memoB = [i \in 1..MaxProbes |-> <<>>]
  /\ saved = [err |-> "none", Qs |-> 0, T |-> <<>>] /\ soloJ = 0
  /\ bsLeft = 0 /\ bsProper = 0

\* __init__
Init ==
  /\ pc = "idle"
  /\ max_iter \in 1..MaxIter
  /\ num_random_probes \in 1..MaxProbes
  /\ bsT = <<>>
  /\ Blank

Next == evaluate \/ lanczos_loop_step \/ lanczos_assemble \/ evaluate_probe

Spec == Init /\ [][Next]_vars

NextBatch == lanczos_batch_call \/ lanczos_loop_step \/ lanczos_assemble \/ lanczos_solo_call

SpecBatch == Init /\ [][NextBatch]_vars

\* T is any symmetric tridiagonal matrix of side 1..MaxT over the input values
InitBS ==
  /\ pc = "bs_idle"
  /\ max_iter = 1
  /\ num_random_probes = 1
  /\ \E m \in 1..MaxT :
       \E al \in [1..m -> AlphaVals], be \in [1..(m - 1) -> BetaVals] :
         bsT = tridiag(al, be)
  /\ Blank

NextBS == fallback_select

SpecBS == InitBS /\ [][NextBS]_vars

\* ---- properties ----
\* lanczos_batch has left its loop
LoopLeft == steps >= 1 /\ pc \in {"assemble", "returned", "quad", "done"}

\* lanczos_batch has returned or raised
LanczosOver == steps >= 1 /\ pc \in {"returned", "quad", "done"}

\* probe i has |beta_s| < 1e-4 or |alpha_s| < 1e-4 at loop step s
ProbeBroken(i, s) == Abs(beta[i][s + 1]) < BreakTol \/ Abs(alpha[i][s + 1]) < BreakTol

\* every probe has |beta_s| < 1e-4, or every probe has |alpha_s| < 1e-4
WholeBatchTest(s) ==
  \/ \A i \in cols : Abs(beta[i][s + 1]) < BreakTol
  \/ \A i \in cols : Abs(alpha[i][s + 1]) < BreakTol

\* the leading kk-by-kk block of T has minimum eigenvalue >= -1e-4
BlockValid(T, kk) == PivotsOK(T, kk, EigTol, FALSE, 1, T[1][1] + EigTol, 1)

\* every eigenvalue of the leading kk-by-kk block of T, shifted by 1.1e-4, is > 0
NodesPositive(T, kk) == PivotsOK(T, kk, NodeShift, TRUE, 1, T[1][1] + NodeShift, 1)

\* C1 (as claimed): when the full T is invalid and validity of the leading
\* blocks is monotone with largest valid size K, 1 <= K < m, the fallback
\* max(binary_search_symeig(T), 1) selects exactly K.
C1_SelectsLargestValidPrefix ==
  pc = "bs_done" =>
    \A K \in 1..(Len(bsT) - 1) :
      (\A kk \in 1..Len(bsT) : BlockValid(bsT, kk) <=> kk <= K) => bsProper = K

\* C2 (as claimed): binary_search_symeig(T) returns k with 1 <= k <= size(T).
C2_ReturnsAtLeastOne ==
  pc = "bs_done" => 1 <= bsLeft /\ bsLeft <= Len(bsT)

\* C2 (amended): binary_search_symeig(T) returns k with 0 <= k <= size(T), 0
\* included; the size max(k, 1) that evaluate uses is in 1..size(T).
C2_ReturnInRangeClampedByCaller ==
  pc = "bs_done" =>
    /\ 0 <= bsLeft /\ bsLeft <= Len(bsT)
    /\ 1 <= bsProper /\ bsProper <= Len(bsT)
    /\ (bsLeft >= 1 => bsProper = bsLeft)

C2_Witness == pc = "bs_done" /\ Len(bsT) >= 2 /\ bsLeft = 0 /\ bsProper = 1

\* C3 (as claimed): what lanczos_batch returns for probe j in the batch (error,
\* columns of Q, T_j) is what it returns when run on probe j alone.
C3_BatchIndependence ==
  (pc = "returned" /\ caller = "solo") =>
    /\ saved.err = err
    /\ saved.Qs = Qs
    /\ saved.T = Ts[soloJ]

\* C4 (as claimed): for a dimension-1 operator wrapping c > 0, in either form,
\* evaluate raises nothing and returns exactly |c|.
C4_ScalarOperatorShortcut ==
  (pc = "done" /\ n = 1 /\ c > 0) =>
    /\ err = "none"
    /\ retKind = "scalar"
    /\ retVal = c

\* C5 (as claimed): when the loop is left by the early-termination test,
\* lanczos_batch raises nothing and returns Q and T of one common depth no larger
\* than the depth reached, and evaluate returns one estimate per function.
C5_BreakdownIsNoError ==
  (LanczosOver /\ k_bound /\ WholeBatchTest(k)) =>
    /\ err = "none"
    /\ Qs >= 1 /\ Qs <= steps
    /\ \A i \in cols : Len(Ts[i]) = Qs
    /\ (pc = "done" => retKind = "list" /\ Len(results) = nfuncs)

\* C6 (as claimed): once some probe has broken down at loop step s, no further
\* Lanczos step is performed.
C6_AnyProbeStopsBatch ==
  \A s \in 1..(steps - 2) : \A i \in cols : ~ProbeBroken(i, s)

\* C6 (amended): once every probe has |beta_s| < 1e-4, or every probe has
\* |alpha_s| < 1e-4, at loop step s, no further Lanczos step is performed: s is
\* the last step and the loop has been left.
C6_WholeBatchStops ==
  \A s \in 1..(steps - 1) : WholeBatchTest(s) => (steps = s + 1 /\ pc # "loop")

C6_Witness ==
  /\ LoopLeft /\ k_bound
  /\ Cardinality(cols) = 2
  /\ steps < num_iters
  /\ WholeBatchTest(k)

\* C7 (as claimed): lanczos_batch returns Q with kept columns and T of side kept,
\* where kept is the number of steps performed, 1 <= kept <= min(max_iter, n).
C7_KeepsEveryStepPerformed ==
  LanczosOver =>
    /\ err = "none"
    /\ Qs = steps
    /\ \A i \in cols : Len(Ts[i]) = steps
    /\ 1 <= steps /\ steps <= num_iters

\* C8: for a probe with alpha_0 > 0, the block that evaluate eigendecomposes for
\* the quadrature has minimum eigenvalue >= -1e-4, and every node it hands to a
\* func, after the +1.1e-4 shift, is > 0.
C8_QuadratureNodesPositive ==
  \A i \in 1..Len(used) :
    alpha[i][1] > 0 =>
      /\ used[i] >= 1 /\ used[i] <= Len(Ts[i])
      /\ BlockValid(Ts[i], used[i])
      /\ NodesPositive(Ts[i], used[i])

\* a probe with alpha_0 > 0 whose T was indefinite and was cut by the fallback
C8_Witness ==
  \E i \in 1..Len(used) : alpha[i][1] > 0 /\ used[i] < Len(Ts[i])

\* C9: the loop is left before step min(max_iter, n) - 1 only by a step where a
\* whole-batch test holds, it is left at the first such step, and it goes on
\* after any step where neither holds.
C9_LoopExitRule ==
  /\ steps >= 1 => steps <= num_iters /\ (k_bound => steps = k + 1)
  /\ \A s \in 1..(steps - 2) : ~WholeBatchTest(s)
  /\ pc = "loop" => steps < num_iters /\ (k_bound => ~WholeBatchTest(k))
  /\ (LoopLeft /\ steps < num_iters) => (k_bound /\ WholeBatchTest(k))

\* the loop goes on after a step at which each probe has broken down, one by
\* beta and one by alpha, so that neither whole-batch test holds
C9_Witness ==
  /\ pc = "loop" /\ k_bound
  /\ Cardinality(cols) = 2
  /\ \A i \in cols : ProbeBroken(i, k)
  /\ ~WholeBatchTest(k)

\* C10: each returned T_i is the symmetric tridiagonal matrix of probe i's own
\* coefficients, alpha on the diagonal and beta_1.. beside it (beta_0 nowhere);
\* after a single loop iteration it is the 1-by-1 matrix [alpha_0].
C10_TridiagonalOfOwnCoefficients ==
  (LanczosOver /\ err = "none") =>
    \A i \in cols :
      LET T == Ts[i]
          m == Len(T)
      IN /\ m >= 1
         /\ \A r \in 1..m : Len(T[r]) = m
         /\ \A r \in 1..m, cc \in 1..m :
              T[r][cc] = IF r = cc THEN alpha[i][r]
                         ELSE IF cc = r + 1 THEN beta[i][r + 1]
                         ELSE IF r = cc + 1 THEN beta[i][cc + 1]
                         ELSE 0
         /\ (k = 1 => T = <<<<alpha[i][1]>>>>)

\* a returned T of side >= 2 for a probe whose beta_0 differs from its beta_1
C10_Witness ==
  /\ LanczosOver /\ err = "none"
  /\ \E i \in cols : Len(Ts[i]) >= 2 /\ beta[i][1] # beta[i][2]

====
